---- MODULE Spec2Model ----
(***************************************************************************)
(* GoShort (main.go): a URL shortener.  One process holds two maps,        *)
(* storage (slug -> url) and storageReverse (url -> slug), guarded by one  *)
(* sync.RWMutex; the maps are read from the storage file at startup and    *)
(* the forward map is rewritten to the file after every insertion.         *)
(*                                                                         *)
(* Strings are sequences of one-character strings, so that formatting and  *)
(* parsing of the storage file are computed character by character.        *)
(***************************************************************************)
EXTENDS Integers, Sequences, FiniteSets, TLC

(***************************************************************************)
(* Bounds of the model.                                                    *)
(***************************************************************************)
\* no new authorized Submit is accepted once the store could hold this many
MaxEntries == 2
\* restarts of the process explored by SpecCrash
MaxBoots == 1
\* longest storage file, in characters, that SpecLoad starts from
MaxFileLen == 6

\* the request goroutines that may be in flight at once
Procs == {1, 2}

(***************************************************************************)
(* Program constants and configuration (lines 20-27, 93).                  *)
(***************************************************************************)
allSlugPossibilities ==
  << "a","b","c","d","e","f","g","h","i","j","k","l","m",
     "n","o","p","q","r","s","t","u","v","w","x","y","z",
     "A","B","C","D","E","F","G","H","I","J","K","L","M",
     "N","O","P","Q","R","S","T","U","V","W","X","Y","Z",
     "0","1","2","3","4","5","6","7","8","9" >>

\* *SecretConfig, and a secret that differs from it
SecretConfig == "changeme"
Secrets == {"changeme", "wrong"}

\* values of *SpaceConfig the model starts the process with
Spaces == {0, 1}

\* outcomes of rand.Intn(len(allSlugPossibilities)) the process-level
\* specifications draw from (indices of "a" and "b")
RandDraws == {0, 1}

\* request inputs
EmptyStr == << >>
Urls == { EmptyStr, <<"u">>, <<"u", "\n">> }
SlugInputs == { EmptyStr, <<"a">>, <<"a", "a">>, <<"-">> }
ResolveSlugs == { <<"a">>, <<"a", "a">> }

VARIABLES
  SpaceConfig,     \* *SpaceConfig, fixed at process start
  storage,         \* map slug -> url
  storageReverse,  \* map url -> slug
  storageMutex,    \* [writer: 0 or the goroutine in Lock()/holding, readers: set]
  file,            \* the storage file: [exists, data]
  pc,              \* position of each request goroutine
  req,             \* the request each goroutine is serving
  resp,            \* the response sent by the step just taken, if any
  tmp,             \* contents of the temporary file of the running writeStorage
  oldFile,         \* history: the storage file when the running writeStorage began
  issued,          \* history: <<url, slug>> answered to the first Submit of each url
                   \* (SpecRound: the <<url, slug>> pairs of the store before persisting)
  boots,           \* history: number of restarts
  genOut           \* the outcome of the last genUniqueSlug of SpecGen

vars == << SpaceConfig, storage, storageReverse, storageMutex, file, pc, req,
           resp, tmp, oldFile, issued, boots, genOut >>

(***************************************************************************)
(* Go maps: functions whose domain is the set of keys present.             *)
(***************************************************************************)
EmptyMap == [k \in {} |-> EmptyStr]

\* m[k] = v
MapPut(m, k, v) == [x \in (DOMAIN m) \cup {k} |-> IF x = k THEN v ELSE m[x]]

(***************************************************************************)
(* Strings.                                                                *)
(***************************************************************************)
\* strings.Contains(str, string(char))
Contains(str, char) == \E j \in DOMAIN str : str[j] = char

\* strings.Replace(url, "\n", "", -1)   (line 81)
RECURSIVE StripNewlines(_)
StripNewlines(url) ==
  IF url = EmptyStr THEN EmptyStr
  ELSE IF Head(url) = "\n" THEN StripNewlines(Tail(url))
       ELSE <<Head(url)>> \o StripNewlines(Tail(url))

\* index of the first occurrence of char in str, 0 when there is none
RECURSIVE IndexFrom(_, _, _)
IndexFrom(str, char, i) ==
  IF i > Len(str) THEN 0
  ELSE IF str[i] = char THEN i
       ELSE IndexFrom(str, char, i + 1)

\* variant of SplitN2: the text is cut at its last space
SplitLast(text) ==
  LET sp == { i \in DOMAIN text : text[i] = " " }
  IN  IF sp = {} THEN << text >>
      ELSE LET i == CHOOSE k \in sp : \A m \in sp : m <= k
           IN  << SubSeq(text, 1, i - 1), SubSeq(text, i + 1, Len(text)) >>

\* strings.SplitN(text, " ", 2)   (line 54)
SplitN2(text) ==
  LET i == IndexFrom(text, " ", 1)
  IN  IF i = 0 THEN << text >>
      ELSE << SubSeq(text, 1, i - 1), SubSeq(text, i + 1, Len(text)) >>

\* bufio.ScanLines drops one trailing carriage return of a line
DropCR(line) ==
  IF line # EmptyStr /\ line[Len(line)] = "\r"
  THEN SubSeq(line, 1, Len(line) - 1)
  ELSE line

\* the tokens scanner.Scan() yields over the file's bytes (lines 52-53):
\* the text up to each newline, and a last unterminated line when not empty
RECURSIVE ScanLines(_)
ScanLines(data) ==
  IF data = EmptyStr THEN << >>
  ELSE LET i == IndexFrom(data, "\n", 1)
       IN  IF i = 0 THEN << DropCR(data) >>
           ELSE << DropCR(SubSeq(data, 1, i - 1)) >>
                \o ScanLines(SubSeq(data, i + 1, Len(data)))

(***************************************************************************)
(* The storage file.                                                       *)
(***************************************************************************)
NoFile == [exists |-> FALSE, data |-> EmptyStr]
FileOf(data) == [exists |-> TRUE, data |-> data]

\* readStorage (lines 44-63): the two maps after scanning the lines in order
RECURSIVE ReadLines(_, _)
ReadLines(lines, maps) ==
  IF lines = << >> THEN maps
  ELSE LET pieces == SplitN2(Head(lines))
       IN  IF Len(pieces) = 2
           THEN ReadLines(Tail(lines),
                          [fwd |-> MapPut(maps.fwd, pieces[1], pieces[2]),
                           rev |-> MapPut(maps.rev, pieces[2], pieces[1])])
           ELSE ReadLines(Tail(lines), maps)

readStorage(f) ==
  IF ~f.exists THEN [fwd |-> EmptyMap, rev |-> EmptyMap]
  ELSE ReadLines(ScanLines(f.data), [fwd |-> EmptyMap, rev |-> EmptyMap])

\* fmt.Fprintf(f, "%s %s\n", slug, strings.Replace(url, "\n", "", -1))
FormatLine(slug, url) == slug \o <<" ">> \o StripNewlines(url) \o <<"\n">>

\* the orders in which range may visit the keys of a map
Orders(S) ==
  { o \in [1..Cardinality(S) -> S] : \A i, j \in DOMAIN o : i # j => o[i] # o[j] }

RECURSIVE FormatAll(_, _)
FormatAll(m, order) ==
  IF order = << >> THEN EmptyStr
  ELSE FormatLine(Head(order), m[Head(order)]) \o FormatAll(m, Tail(order))

\* the contents writeStorage may give its temporary file (lines 80-84)
writeStorageData(m) == { FormatAll(m, o) : o \in Orders(DOMAIN m) }

(***************************************************************************)
(* Slug generation and validation (lines 93-126).                          *)
(***************************************************************************)
\* oneSlugEntry with rand.Intn returning r (Go indexes from 0)
oneSlugEntry(r) == allSlugPossibilities[r + 1]

\* variant of genSlug: the default length 5 hard-coded instead of *SpaceConfig
genSlugFixed(draws) ==
  [ix \in 1..5 |-> oneSlugEntry(IF ix \in DOMAIN draws THEN draws[ix] ELSE 0)]

\* genSlug with the successive rand.Intn results draws[1..*SpaceConfig]
genSlug(draws) == [ix \in 1..SpaceConfig |-> oneSlugEntry(draws[ix])]

\* every string genSlug can return when rand.Intn yields values of rands
genSlugs(rands) == { genSlug(draws) : draws \in [1..SpaceConfig -> rands] }

\* variant of genUniqueSlug: the candidate is returned without the check of
\* line 111
genUniqueSlugNoCheck(st, rands) ==
  { [panic |-> FALSE, slug |-> s] : s \in genSlugs(rands) }

\* genUniqueSlug: the outcomes of up to 100000 draws.  Any candidate absent
\* from storage may be returned; when some candidate is present, every one of
\* the attempts may hit a present one, and the function panics.
genUniqueSlug(st, rands) ==
  { [panic |-> FALSE, slug |-> s] : s \in genSlugs(rands) \ DOMAIN st }
  \cup (IF genSlugs(rands) \cap DOMAIN st # {}
        THEN { [panic |-> TRUE, slug |-> EmptyStr] }
        ELSE {})

invalidSlug(slug) ==
  \E i \in DOMAIN slug : ~Contains(allSlugPossibilities, slug[i])

\* variant of Authorized: the url is not tested
AuthorizedSecretOnly(secret, url) == secret = SecretConfig

\* line 142
Authorized(secret, url) == secret = SecretConfig /\ url # EmptyStr

\* variant of NeedsGenerated: the empty slug is not tested
NeedsGeneratedNoEmpty(slug, st) ==
  invalidSlug(slug) \/ slug \in DOMAIN st

\* line 151: the caller's slug is replaced by a generated one
NeedsGenerated(slug, st) ==
  slug = EmptyStr \/ invalidSlug(slug) \/ slug \in DOMAIN st

\* lines 150-153: the slug the new entry gets ([panic, slug, gen])
ChooseSlug(slug, st, rands) ==
  IF NeedsGenerated(slug, st)
  THEN { [panic |-> o.panic, slug |-> o.slug, gen |-> TRUE] :
           o \in genUniqueSlug(st, rands) }
  ELSE { [panic |-> FALSE, slug |-> slug, gen |-> FALSE] }

(***************************************************************************)
(* Requests and responses.                                                 *)
(***************************************************************************)
NoReq == [kind |-> "none", url |-> EmptyStr, slug |-> EmptyStr,
          asked |-> EmptyStr, gen |-> FALSE]

\* a response to POST /submit; secret, url and asked repeat the request's form
SubmitResp(code, secret, url, slug, asked, gen) ==
  [kind |-> "submit", code |-> code, secret |-> secret, url |-> url,
   slug |-> slug, asked |-> asked, gen |-> gen]
NoResp == [kind |-> "none", code |-> 0, secret |-> "", url |-> EmptyStr,
           slug |-> EmptyStr, asked |-> EmptyStr, gen |-> FALSE]

StatusOK == 200
StatusMovedPermanently == 301
StatusUnauthorized == 401
StatusNotFound == 404
\* no response: the panic unwinds the handler and the connection is dropped
Aborted == 0

\* genUniqueSlug has not been called
NoGen == [panic |-> FALSE, slug |-> <<"?">>]

Unlocked == [writer |-> 0, readers |-> {}]

\* the pair remembered for the first successful Submit of a url
Remember(url, slug) ==
  IF \E pr \in issued : pr[1] = url THEN issued ELSE issued \cup { <<url, slug>> }

(***************************************************************************)
(* Startup: flag.Parse, readStorage (lines 128-132).  The storage file is  *)
(* missing or was written by an earlier run holding one entry.             *)
(***************************************************************************)
InitFiles ==
  { NoFile } \cup
  { FileOf(FormatLine(<<"a">>, u)) : u \in Urls \ { EmptyStr } }

Init ==
  /\ SpaceConfig \in Spaces
  /\ file \in InitFiles
  /\ storage = readStorage(file).fwd
  /\ storageReverse = readStorage(file).rev
  /\ storageMutex = Unlocked
  /\ pc = [p \in Procs |-> "idle"]
  /\ req = [p \in Procs |-> NoReq]
  /\ resp = NoResp
  /\ tmp = EmptyStr
  /\ oldFile = NoFile
  /\ issued = {}
  /\ boots = 0
  /\ genOut = NoGen

(***************************************************************************)
(* POST /submit (lines 138-161).                                           *)
(***************************************************************************)
\* lines 139-142, 159-161: read the form; refuse, or go on to take the lock
Submit(p, secret, url, slug) ==
  /\ pc[p] = "idle"
  /\ IF Authorized(secret, url)
     THEN /\ \/ url \in DOMAIN storageReverse
             \/ Cardinality(DOMAIN storage)
                  + Cardinality({ q \in Procs : req[q].kind = "submit" }) < MaxEntries
          /\ pc' = [pc EXCEPT ![p] = "lock"]
          /\ req' = [req EXCEPT ![p] = [kind |-> "submit", url |-> url, slug |-> slug,
                                        asked |-> slug, gen |-> FALSE]]
          /\ resp' = NoResp
     ELSE /\ resp' = SubmitResp(StatusUnauthorized, secret, url, EmptyStr, EmptyStr, FALSE)
          /\ UNCHANGED << pc, req >>
  /\ UNCHANGED << SpaceConfig, storage, storageReverse, storageMutex, file, tmp,
                  oldFile, issued, boots, genOut >>

\* a Lock that does not exclude a goroutine already holding the lock
LockBeginShared(p) ==
  /\ pc[p] = "lock"
  /\ storageMutex' = [storageMutex EXCEPT !.writer = p]
  /\ pc' = [pc EXCEPT ![p] = "lockwait"]
  /\ resp' = NoResp
  /\ UNCHANGED << SpaceConfig, storage, storageReverse, file, req, tmp,
                  oldFile, issued, boots, genOut >>

\* storageMutex.Lock() (line 143), first half: exclude other writers and
\* announce the pending writer, which holds back new readers
LockBegin(p) ==
  /\ pc[p] = "lock"
  /\ storageMutex.writer = 0
  /\ storageMutex' = [storageMutex EXCEPT !.writer = p]
  /\ pc' = [pc EXCEPT ![p] = "lockwait"]
  /\ resp' = NoResp
  /\ UNCHANGED << SpaceConfig, storage, storageReverse, file, req, tmp,
                  oldFile, issued, boots, genOut >>

\* storageMutex.Lock(), second half: wait for the active readers to leave
LockAcquire(p) ==
  /\ pc[p] = "lockwait"
  /\ storageMutex.readers = {}
  /\ pc' = [pc EXCEPT ![p] = "locked"]
  /\ resp' = NoResp
  /\ UNCHANGED << SpaceConfig, storage, storageReverse, storageMutex, file, req,
                  tmp, oldFile, issued, boots, genOut >>

\* a handler without the deferred Unlock of line 144: the exclusive lock
\* stays held when genUniqueSlug panics
SubmitLockedNoDefer(p) ==
  /\ pc[p] = "locked"
  /\ IF req[p].url \in DOMAIN storageReverse
     THEN /\ resp' = SubmitResp(StatusOK, SecretConfig, req[p].url,
                                storageReverse[req[p].url], req[p].asked, FALSE)
          /\ issued' = Remember(req[p].url, storageReverse[req[p].url])
          /\ storageMutex' = Unlocked
          /\ pc' = [pc EXCEPT ![p] = "idle"]
          /\ req' = [req EXCEPT ![p] = NoReq]
     ELSE \E c \in ChooseSlug(req[p].slug, storage, RandDraws) :
            IF c.panic
            THEN /\ resp' = SubmitResp(Aborted, SecretConfig, req[p].url, EmptyStr,
                                       req[p].asked, TRUE)
                 /\ pc' = [pc EXCEPT ![p] = "idle"]
                 /\ req' = [req EXCEPT ![p] = NoReq]
                 /\ UNCHANGED << storageMutex, issued >>
            ELSE /\ req' = [req EXCEPT ![p].slug = c.slug, ![p].gen = c.gen]
                 /\ pc' = [pc EXCEPT ![p] = "insert"]
                 /\ resp' = NoResp
                 /\ UNCHANGED << storageMutex, issued >>
  /\ UNCHANGED << SpaceConfig, storage, storageReverse, file, tmp, oldFile, boots,
                  genOut >>

\* a handler that puts the url under the caller's slug before it generates
\* a slug, so that a panic of genUniqueSlug leaves that entry behind
SubmitLockedInsertFirst(p) ==
  /\ pc[p] = "locked"
  /\ IF req[p].url \in DOMAIN storageReverse
     THEN /\ resp' = SubmitResp(StatusOK, SecretConfig, req[p].url,
                                storageReverse[req[p].url], req[p].asked, FALSE)
          /\ issued' = Remember(req[p].url, storageReverse[req[p].url])
          /\ storageMutex' = Unlocked
          /\ pc' = [pc EXCEPT ![p] = "idle"]
          /\ req' = [req EXCEPT ![p] = NoReq]
          /\ UNCHANGED storage
     ELSE \E c \in ChooseSlug(req[p].slug, storage, RandDraws) :
            IF c.panic
            THEN /\ resp' = SubmitResp(Aborted, SecretConfig, req[p].url, EmptyStr,
                                       req[p].asked, TRUE)
                 /\ storage' = MapPut(storage, req[p].slug, req[p].url)
                 /\ storageMutex' = Unlocked
                 /\ pc' = [pc EXCEPT ![p] = "idle"]
                 /\ req' = [req EXCEPT ![p] = NoReq]
                 /\ UNCHANGED issued
            ELSE /\ req' = [req EXCEPT ![p].slug = c.slug, ![p].gen = c.gen]
                 /\ pc' = [pc EXCEPT ![p] = "insert"]
                 /\ resp' = NoResp
                 /\ UNCHANGED << storage, storageMutex, issued >>
  /\ UNCHANGED << SpaceConfig, storageReverse, file, tmp, oldFile, boots, genOut >>

\* a handler without the reverse lookup of lines 146-149: every url is new
SubmitLockedNoReverse(p) ==
  /\ pc[p] = "locked"
  /\ \E c \in ChooseSlug(req[p].slug, storage, RandDraws) :
       IF c.panic
       THEN /\ resp' = SubmitResp(Aborted, SecretConfig, req[p].url, EmptyStr,
                                  req[p].asked, TRUE)
            /\ storageMutex' = Unlocked
            /\ pc' = [pc EXCEPT ![p] = "idle"]
            /\ req' = [req EXCEPT ![p] = NoReq]
       ELSE /\ req' = [req EXCEPT ![p].slug = c.slug, ![p].gen = c.gen]
            /\ pc' = [pc EXCEPT ![p] = "insert"]
            /\ resp' = NoResp
            /\ UNCHANGED storageMutex
  /\ UNCHANGED << SpaceConfig, storage, storageReverse, file, tmp, oldFile, issued,
                  boots, genOut >>

\* lines 146-153 under the lock: reverse lookup; on a hit answer and unlock
\* (deferred); on a miss choose the slug, or panic.  The panic of line 116
\* unwinds the handler, which runs the deferred Unlock of line 144; net/http
\* recovers a handler's panic, drops the connection and goes on serving, so
\* the goroutine ends and the process lives on.
SubmitLocked(p) ==
  /\ pc[p] = "locked"
  /\ IF req[p].url \in DOMAIN storageReverse
     THEN /\ resp' = SubmitResp(StatusOK, SecretConfig, req[p].url,
                                storageReverse[req[p].url], req[p].asked, FALSE)
          /\ issued' = Remember(req[p].url, storageReverse[req[p].url])
          /\ storageMutex' = Unlocked
          /\ pc' = [pc EXCEPT ![p] = "idle"]
          /\ req' = [req EXCEPT ![p] = NoReq]
     ELSE \E c \in ChooseSlug(req[p].slug, storage, RandDraws) :
            IF c.panic
            THEN /\ resp' = SubmitResp(Aborted, SecretConfig, req[p].url, EmptyStr,
                                       req[p].asked, TRUE)
                 /\ storageMutex' = Unlocked
                 /\ pc' = [pc EXCEPT ![p] = "idle"]
                 /\ req' = [req EXCEPT ![p] = NoReq]
                 /\ UNCHANGED issued
            ELSE /\ req' = [req EXCEPT ![p].slug = c.slug, ![p].gen = c.gen]
                 /\ pc' = [pc EXCEPT ![p] = "insert"]
                 /\ resp' = NoResp
                 /\ UNCHANGED << storageMutex, issued >>
  /\ UNCHANGED << SpaceConfig, storage, storageReverse, file, tmp, oldFile, boots,
                  genOut >>

\* line 154: storage[slug] = url, and the call of writeStorage
Insert(p) ==
  /\ pc[p] = "insert"
  /\ storage' = MapPut(storage, req[p].slug, req[p].url)
  /\ pc' = [pc EXCEPT ![p] = "persist"]
  /\ oldFile' = file
  /\ resp' = NoResp
  /\ UNCHANGED << SpaceConfig, storageReverse, storageMutex, file, req, tmp, issued,
                  boots, genOut >>

(***************************************************************************)
(* writeStorage (lines 70-91), step by step on the file system.            *)
(***************************************************************************)
\* variant of WriteTemp: a failure to create the temporary file is reported
\* to the client as an error and the handler returns
WriteTempReportsError(p) ==
  /\ pc[p] = "persist"
  /\ \/ /\ pc' = [pc EXCEPT ![p] = "idle"]
        /\ resp' = SubmitResp(500, SecretConfig, req[p].url, EmptyStr,
                              req[p].asked, req[p].gen)
        /\ storageMutex' = Unlocked
        /\ req' = [req EXCEPT ![p] = NoReq]
        /\ UNCHANGED tmp
     \/ /\ tmp' \in writeStorageData(storage)
        /\ pc' = [pc EXCEPT ![p] = "remove"]
        /\ resp' = NoResp
        /\ UNCHANGED << storageMutex, req >>
  /\ UNCHANGED << SpaceConfig, storage, storageReverse, file,
                  oldFile, issued, boots, genOut >>

\* a writeStorage that writes the entry just created and no other
WriteTempOwnEntry(p) ==
  /\ pc[p] = "persist"
  /\ \/ /\ pc' = [pc EXCEPT ![p] = "respond"]
        /\ UNCHANGED tmp
     \/ /\ tmp' = FormatLine(req[p].slug, req[p].url)
        /\ pc' = [pc EXCEPT ![p] = "remove"]
  /\ resp' = NoResp
  /\ UNCHANGED << SpaceConfig, storage, storageReverse, storageMutex, file, req,
                  oldFile, issued, boots, genOut >>

\* lines 71-84: create the temporary file (which may fail: return) and
\* write every entry to it
WriteTemp(p) ==
  /\ pc[p] = "persist"
  /\ \/ /\ pc' = [pc EXCEPT ![p] = "respond"]
        /\ UNCHANGED tmp
     \/ /\ tmp' \in writeStorageData(storage)
        /\ pc' = [pc EXCEPT ![p] = "remove"]
  /\ resp' = NoResp
  /\ UNCHANGED << SpaceConfig, storage, storageReverse, storageMutex, file, req,
                  oldFile, issued, boots, genOut >>

\* lines 86-88: if fileExists(name) { os.Remove(name) }
RemoveOld(p) ==
  /\ pc[p] = "remove"
  /\ file' = IF file.exists THEN NoFile ELSE file
  /\ pc' = [pc EXCEPT ![p] = "rename"]
  /\ resp' = NoResp
  /\ UNCHANGED << SpaceConfig, storage, storageReverse, storageMutex, req,
                  tmp, oldFile, issued, boots, genOut >>

\* line 90: os.Rename(f.Name(), name)
RenameTemp(p) ==
  /\ pc[p] = "rename"
  /\ file' = FileOf(tmp)
  /\ tmp' = EmptyStr
  /\ pc' = [pc EXCEPT ![p] = "respond"]
  /\ resp' = NoResp
  /\ UNCHANGED << SpaceConfig, storage, storageReverse, storageMutex, req,
                  oldFile, issued, boots, genOut >>

\* lines 156-158 and the deferred Unlock of line 144
SubmitRespond(p) ==
  /\ pc[p] = "respond"
  /\ resp' = SubmitResp(StatusOK, SecretConfig, req[p].url, req[p].slug,
                        req[p].asked, req[p].gen)
  /\ issued' = Remember(req[p].url, req[p].slug)
  /\ storageMutex' = Unlocked
  /\ pc' = [pc EXCEPT ![p] = "idle"]
  /\ req' = [req EXCEPT ![p] = NoReq]
  /\ oldFile' = NoFile
  /\ UNCHANGED << SpaceConfig, storage, storageReverse, file, tmp, boots, genOut >>

(***************************************************************************)
(* GET or HEAD /<slug> (lines 162-171).                                    *)
(***************************************************************************)
\* line 163
Resolve(p, slug) ==
  /\ pc[p] = "idle"
  /\ pc' = [pc EXCEPT ![p] = "rlock"]
  /\ req' = [req EXCEPT ![p] = [kind |-> "resolve", url |-> EmptyStr, slug |-> slug,
                                asked |-> slug, gen |-> FALSE]]
  /\ resp' = NoResp
  /\ UNCHANGED << SpaceConfig, storage, storageReverse, storageMutex, file, tmp,
                  oldFile, issued, boots, genOut >>

\* an RLock that does not wait for a writer
RLockIgnoresWriter(p) ==
  /\ pc[p] = "rlock"
  /\ storageMutex' = [storageMutex EXCEPT !.readers = @ \cup {p}]
  /\ pc' = [pc EXCEPT ![p] = "rlocked"]
  /\ resp' = NoResp
  /\ UNCHANGED << SpaceConfig, storage, storageReverse, file, req, tmp,
                  oldFile, issued, boots, genOut >>

\* line 164: RLock waits while a writer holds or awaits the lock
RLock(p) ==
  /\ pc[p] = "rlock"
  /\ storageMutex.writer = 0
  /\ storageMutex' = [storageMutex EXCEPT !.readers = @ \cup {p}]
  /\ pc' = [pc EXCEPT ![p] = "rlocked"]
  /\ resp' = NoResp
  /\ UNCHANGED << SpaceConfig, storage, storageReverse, file, req, tmp,
                  oldFile, issued, boots, genOut >>

\* variant of Lookup: the redirect goes to the url as writeStorage writes it
LookupStripped(st, slug) ==
  IF slug \in DOMAIN st
  THEN [kind |-> "resolve", code |-> StatusMovedPermanently, secret |-> "",
        url |-> StripNewlines(st[slug]), slug |-> slug, asked |-> slug, gen |-> FALSE]
  ELSE [kind |-> "resolve", code |-> StatusNotFound, secret |-> "",
        url |-> EmptyStr, slug |-> slug, asked |-> slug, gen |-> FALSE]

\* variant of Lookup: ok is not tested, a missing slug redirects to ""
LookupNoOk(st, slug) ==
  [kind |-> "resolve", code |-> StatusMovedPermanently, secret |-> "",
   url |-> IF slug \in DOMAIN st THEN st[slug] ELSE EmptyStr,
   slug |-> slug, asked |-> slug, gen |-> FALSE]

\* the response of lines 167-171 to url, ok := storage[slug]
Lookup(st, slug) ==
  IF slug \in DOMAIN st
  THEN [kind |-> "resolve", code |-> StatusMovedPermanently, secret |-> "",
        url |-> st[slug], slug |-> slug, asked |-> slug, gen |-> FALSE]
  ELSE [kind |-> "resolve", code |-> StatusNotFound, secret |-> "",
        url |-> EmptyStr, slug |-> slug, asked |-> slug, gen |-> FALSE]

\* lines 165-171: read, RUnlock, redirect or not-found
ResolveRead(p) ==
  /\ pc[p] = "rlocked"
  /\ resp' = Lookup(storage, req[p].slug)
  /\ storageMutex' = [storageMutex EXCEPT !.readers = @ \ {p}]
  /\ pc' = [pc EXCEPT ![p] = "idle"]
  /\ req' = [req EXCEPT ![p] = NoReq]
  /\ UNCHANGED << SpaceConfig, storage, storageReverse, file, tmp, oldFile, issued,
                  boots, genOut >>

\* lines 172-174: any other method or path
Other(p) ==
  /\ pc[p] = "idle"
  /\ resp' = [kind |-> "other", code |-> StatusNotFound, secret |-> "",
              url |-> EmptyStr, slug |-> EmptyStr, asked |-> EmptyStr, gen |-> FALSE]
  /\ UNCHANGED << SpaceConfig, storage, storageReverse, storageMutex, file, pc, req,
                  tmp, oldFile, issued, boots, genOut >>

Next ==
  \E p \in Procs :
    \/ \E secret \in Secrets, url \in Urls, slug \in SlugInputs :
         Submit(p, secret, url, slug)
    \/ LockBegin(p)
    \/ LockAcquire(p)
    \/ SubmitLocked(p)
    \/ Insert(p)
    \/ WriteTemp(p)
    \/ RemoveOld(p)
    \/ RenameTemp(p)
    \/ SubmitRespond(p)
    \/ \E slug \in ResolveSlugs : Resolve(p, slug)
    \/ RLock(p)
    \/ ResolveRead(p)
    \/ Other(p)

Spec == Init /\ [][Next]_vars

(***************************************************************************)
(* Fair scheduling.  The runtime keeps running every goroutine that can    *)
(* take a step, and sync.RWMutex hands the lock to a goroutine that keeps  *)
(* waiting for it (a writer's Unlock admits the readers that wait, and a   *)
(* starved Lock is served first), so a handler's next step is taken if it  *)
(* is possible again and again.  New requests arrive or not, as they like. *)
(***************************************************************************)
\* the next step of the handler that goroutine p runs
Handle(p) ==
  \/ LockBegin(p)
  \/ LockAcquire(p)
  \/ SubmitLocked(p)
  \/ Insert(p)
  \/ WriteTemp(p)
  \/ RemoveOld(p)
  \/ RenameTemp(p)
  \/ SubmitRespond(p)
  \/ RLock(p)
  \/ ResolveRead(p)

SpecFair == Spec /\ \A p \in Procs : SF_vars(Handle(p))

(***************************************************************************)
(* The process is killed at any point and started again: memory and the    *)
(* lock are lost, requests in flight get no answer, readStorage loads the  *)
(* file as it is (lines 128-132).                                          *)
(***************************************************************************)
CrashRestart ==
  /\ boots < MaxBoots
  /\ boots' = boots + 1
  /\ storage' = readStorage(file).fwd
  /\ storageReverse' = readStorage(file).rev
  /\ storageMutex' = Unlocked
  /\ pc' = [p \in Procs |-> "idle"]
  /\ req' = [p \in Procs |-> NoReq]
  /\ resp' = NoResp
  /\ tmp' = EmptyStr
  /\ oldFile' = NoFile
  /\ issued' = {}
  /\ UNCHANGED << SpaceConfig, file, genOut >>

NextCrash == Next \/ CrashRestart

SpecCrash == Init /\ [][NextCrash]_vars

(***************************************************************************)
(* Slug generation on its own, over the whole alphabet: the process starts *)
(* with some length and store, and genUniqueSlug is called on it.          *)
(***************************************************************************)
GenSpaces == {0, 1, 2}
AllDraws == 0..(Len(allSlugPossibilities) - 1)

InitGen ==
  /\ SpaceConfig \in GenSpaces
  /\ file \in InitFiles
  /\ storage = readStorage(file).fwd
  /\ storageReverse = readStorage(file).rev
  /\ storageMutex = Unlocked
  /\ pc = [p \in Procs |-> "idle"]
  /\ req = [p \in Procs |-> NoReq]
  /\ resp = NoResp
  /\ tmp = EmptyStr
  /\ oldFile = NoFile
  /\ issued = {}
  /\ boots = 0
  /\ genOut = NoGen

GenStep ==
  /\ genOut = NoGen
  /\ genOut' \in genUniqueSlug(storage, AllDraws)
  /\ UNCHANGED << SpaceConfig, storage, storageReverse, storageMutex, file, pc,
                  req, resp, tmp, oldFile, issued, boots >>

SpecGen == InitGen /\ [][GenStep]_vars

(***************************************************************************)
(* writeStorage followed by readStorage on their own: the process holds    *)
(* some store, writes it (lines 70-91, no failure), and a fresh process    *)
(* loads the file into empty maps (lines 39-63).                           *)
(***************************************************************************)
RoundSlugs == { EmptyStr, <<"a">>, <<"b">> }
RoundChars == { "u", " ", "\n", "\r" }
RoundUrls == UNION { [1..n -> RoundChars] : n \in 1..2 }
RoundStores ==
  UNION { [S -> RoundUrls] : S \in { T \in SUBSET RoundSlugs : Cardinality(T) <= 2 } }

InitRound ==
  /\ SpaceConfig \in Spaces
  /\ storage \in RoundStores
  /\ storageReverse = EmptyMap
  /\ file = NoFile
  /\ storageMutex = Unlocked
  /\ pc = [p \in Procs |-> "idle"]
  /\ req = [p \in Procs |-> NoReq]
  /\ resp = NoResp
  /\ tmp = EmptyStr
  /\ oldFile = NoFile
  /\ issued = { << storage[s], s >> : s \in DOMAIN storage }
  /\ boots = 0
  /\ genOut = NoGen

\* writeStorage from entry to return
RoundPersist ==
  /\ boots = 0
  /\ ~file.exists
  /\ \E data \in writeStorageData(storage) : file' = FileOf(data)
  /\ UNCHANGED << SpaceConfig, storage, storageReverse, storageMutex, pc, req,
                  resp, tmp, oldFile, issued, boots, genOut >>

\* init and readStorage of a new process on the file written
RoundLoad ==
  /\ boots = 0
  /\ file.exists
  /\ boots' = boots + 1
  /\ storage' = readStorage(file).fwd
  /\ storageReverse' = readStorage(file).rev
  /\ UNCHANGED << SpaceConfig, storageMutex, file, pc, req, resp, tmp, oldFile,
                  issued, genOut >>

NextRound == RoundPersist \/ RoundLoad

SpecRound == InitRound /\ [][NextRound]_vars

(***************************************************************************)
(* readStorage on its own: the process starts on a missing storage file or *)
(* on one with any contents (lines 39-63, 131).                            *)
(***************************************************************************)
LoadChars == { "a", "u", " ", "\n", "\r" }
LoadFiles ==
  { NoFile } \cup
  { FileOf(data) : data \in UNION { [1..n -> LoadChars] : n \in 0..MaxFileLen } }

InitLoad ==
  /\ SpaceConfig \in Spaces
  /\ file \in LoadFiles
  /\ storage = EmptyMap
  /\ storageReverse = EmptyMap
  /\ storageMutex = Unlocked
  /\ pc = [p \in Procs |-> "idle"]
  /\ req = [p \in Procs |-> NoReq]
  /\ resp = NoResp
  /\ tmp = EmptyStr
  /\ oldFile = NoFile
  /\ issued = {}
  /\ boots = 0
  /\ genOut = NoGen

\* readStorage, called once by main
LoadStart ==
  /\ boots = 0
  /\ boots' = boots + 1
  /\ storage' = readStorage(file).fwd
  /\ storageReverse' = readStorage(file).rev
  /\ UNCHANGED << SpaceConfig, storageMutex, file, pc, req, resp, tmp, oldFile,
                  issued, genOut >>

SpecLoad == InitLoad /\ [][LoadStart]_vars

(***************************************************************************)
(* Vocabulary of the properties.                                           *)
(***************************************************************************)
Lower == { "a","b","c","d","e","f","g","h","i","j","k","l","m",
           "n","o","p","q","r","s","t","u","v","w","x","y","z" }
Upper == { "A","B","C","D","E","F","G","H","I","J","K","L","M",
           "N","O","P","Q","R","S","T","U","V","W","X","Y","Z" }
Digits == { "0","1","2","3","4","5","6","7","8","9" }
Alphabet62 == Lower \cup Upper \cup Digits

\* positions at which a Submit holds the exclusive lock
WriteLocked == { "locked", "insert", "persist", "remove", "rename", "respond" }
\* positions inside writeStorage
Persisting == { "persist", "remove", "rename" }

\* the step just taken answered a Submit with 200
Answered200 == resp.kind = "submit" /\ resp.code = StatusOK

\* the caller's slug passes the explicit-slug rule against the forward map st
Acceptable(slug, st) ==
  /\ slug # EmptyStr
  /\ \A i \in DOMAIN slug : slug[i] \in Alphabet62
  /\ slug \notin DOMAIN st

\* goroutine p executes lines 146-153 in this step, its url having no reverse entry
CreatesEntry(p) ==
  /\ pc[p] = "locked"
  /\ pc'[p] # "locked"
  /\ req[p].url \notin DOMAIN storageReverse

(***************************************************************************)
(* C1.  The slug answered to the first (authorized, non-empty) Submit of a *)
(* url resolves, from then on, with 301 to exactly that url: the forward   *)
(* map redirects it there in every later state, and every Resolve of that  *)
(* slug answers 301 with that url.                                         *)
(***************************************************************************)
C1_IssuedSlugRedirectsToUrl ==
  /\ \A pr \in issued :
       /\ Lookup(storage, pr[2]).code = StatusMovedPermanently
       /\ Lookup(storage, pr[2]).url = pr[1]
  /\ \A pr \in issued :
       (resp.kind = "resolve" /\ resp.slug = pr[2])
         => (resp.code = StatusMovedPermanently /\ resp.url = pr[1])

\* a Resolve has just redirected a slug issued by this process to its url,
\* a url with a newline in it
C1_Witness ==
  /\ resp.kind = "resolve"
  /\ resp.code = StatusMovedPermanently
  /\ << resp.url, resp.slug >> \in issued
  /\ resp.url = <<"u", "\n">>

(***************************************************************************)
(* C2.  Every successful Submit of a url answers the slug that the first   *)
(* successful Submit of that url answered.                                 *)
(***************************************************************************)
C2_SecondSubmitSameSlug ==
  Answered200 => << resp.url, resp.slug >> \in issued

(***************************************************************************)
(* C3.  No two distinct urls map to the same slug (reverse map) and no url *)
(* is the target of two different slugs in the forward map.                *)
(***************************************************************************)
C3_Bijective ==
  /\ \A u1, u2 \in DOMAIN storageReverse :
       storageReverse[u1] = storageReverse[u2] => u1 = u2
  /\ \A s1, s2 \in DOMAIN storage :
       storage[s1] = storage[s2] => s1 = s2

(***************************************************************************)
(* C4.  Whenever no Submit holds the write lock, forward[slug] = url if    *)
(* and only if reverse[url] = slug.                                        *)
(***************************************************************************)
C4_ForwardReverseConsistent ==
  (\A p \in Procs : pc[p] \notin WriteLocked) =>
    /\ \A s \in DOMAIN storage :
         /\ storage[s] \in DOMAIN storageReverse
         /\ storageReverse[storage[s]] = s
    /\ \A u \in DOMAIN storageReverse :
         /\ storageReverse[u] \in DOMAIN storage
         /\ storage[storageReverse[u]] = u

(***************************************************************************)
(* C5.  No step of the process changes or removes an existing forward      *)
(* entry: a slug that maps to a url maps to the same url in the next state.*)
(***************************************************************************)
C5_ForwardEntriesImmutable ==
  [][ \A s \in DOMAIN storage : s \in DOMAIN storage' /\ storage'[s] = storage[s] ]_vars

\* a Submit that named a slug held by another url has just been answered
\* with a generated slug, and the named entry is still in place
C5_Witness ==
  /\ Answered200
  /\ resp.gen
  /\ resp.asked # EmptyStr
  /\ resp.asked \in DOMAIN storage
  /\ storage[resp.asked] # resp.url
  /\ resp.slug # resp.asked

(***************************************************************************)
(* C6.  A Submit whose secret differs from the configured one, or whose    *)
(* url is empty, is answered 401, and the step that answers it changes     *)
(* neither map nor the storage file.                                       *)
(***************************************************************************)
C6_UnauthorizedRefusedNoChange ==
  [][ (resp'.kind = "submit" /\ (resp'.secret # SecretConfig \/ resp'.url = EmptyStr))
        => /\ resp'.code = StatusUnauthorized
           /\ UNCHANGED << storage, storageReverse, file >> ]_vars

\* a Submit with the right secret and an empty url has just been refused,
\* the store holding an entry
C6_Witness ==
  /\ resp.kind = "submit"
  /\ resp.code = StatusUnauthorized
  /\ resp.secret = SecretConfig
  /\ resp.url = EmptyStr
  /\ storage # EmptyMap

(***************************************************************************)
(* C7.  A Resolve of a slug absent from the forward map answers 404, and   *)
(* no step of a Resolve (taking the request, RLock, read and answer)       *)
(* changes either map or the storage file.                                 *)
(***************************************************************************)
C7_ResolveMissAndFrame ==
  [][ /\ resp'.kind = "resolve" =>
           (resp'.slug \notin DOMAIN storage => resp'.code = StatusNotFound)
      /\ (\E p \in Procs : (req[p].kind = "resolve" \/ req'[p].kind = "resolve")
                            /\ pc'[p] # pc[p])
           => UNCHANGED << storage, storageReverse, file >> ]_vars

\* a Resolve has just answered 404 for a slug the non-empty store lacks
C7_Witness ==
  /\ resp.kind = "resolve"
  /\ resp.code = StatusNotFound
  /\ resp.slug \notin DOMAIN storage
  /\ storage # EmptyMap

(***************************************************************************)
(* C8 as stated.  When a Submit creates an entry, the caller's slug is     *)
(* used as-is exactly when it is non-empty, over the 62-character alphabet *)
(* and absent from the forward map; otherwise a generated slug is used;    *)
(* and either way the Submit is answered 200.                              *)
(***************************************************************************)
C8_AlwaysSucceeds ==
  [][ \A p \in Procs :
        /\ CreatesEntry(p) =>
             /\ pc'[p] = "insert"
             /\ req'[p].gen <=> ~Acceptable(req[p].slug, storage)
             /\ ~req'[p].gen => req'[p].slug = req[p].slug
        /\ (pc[p] = "insert" /\ pc'[p] # "insert") =>
             storage' = MapPut(storage, req[p].slug, req[p].url)
        /\ (pc[p] = "respond" /\ pc'[p] = "idle") =>
             (Answered200' /\ resp'.slug = req[p].slug) ]_vars

(***************************************************************************)
(* C8 amended.  The same, except that a Submit that needs a generated slug *)
(* may end without an answer when generation runs out of attempts, which   *)
(* can only happen when a slug of the configured length is in the map.     *)
(***************************************************************************)
C8_SlugChoice ==
  [][ \A p \in Procs :
        /\ CreatesEntry(p) =>
             \/ /\ pc'[p] = "insert"
                /\ req'[p].gen <=> ~Acceptable(req[p].slug, storage)
                /\ ~req'[p].gen => req'[p].slug = req[p].slug
                /\ req'[p].slug \notin DOMAIN storage
             \/ /\ ~Acceptable(req[p].slug, storage)
                /\ resp'.kind = "submit" /\ resp'.code = Aborted
                /\ \E s \in DOMAIN storage : Len(s) = SpaceConfig
                /\ storage' = storage
        /\ (pc[p] = "insert" /\ pc'[p] # "insert") =>
             storage' = MapPut(storage, req[p].slug, req[p].url)
        /\ (pc[p] = "respond" /\ pc'[p] = "idle") =>
             (Answered200' /\ resp'.slug = req[p].slug) ]_vars

\* a caller's slug of another length than the configured one has just been
\* answered as-is
C8_Witness ==
  /\ Answered200
  /\ ~resp.gen
  /\ resp.slug = resp.asked
  /\ Len(resp.slug) # SpaceConfig
  /\ resp.slug \in DOMAIN storage /\ storage[resp.slug] = resp.url

(***************************************************************************)
(* C9.  Every slug genUniqueSlug returns consists of characters of         *)
(* a-z, A-Z, 0-9 only and has exactly *SpaceConfig characters.             *)
(***************************************************************************)
C9_GeneratedSlugShape ==
  (genOut # NoGen /\ ~genOut.panic) =>
    /\ Len(genOut.slug) = SpaceConfig
    /\ \A i \in DOMAIN genOut.slug : genOut.slug[i] \in Alphabet62

\* a two-character slug with an upper-case letter and a digit was generated
C9_Witness ==
  /\ SpaceConfig = Cardinality({"Z", "9"})
  /\ genOut = [panic |-> FALSE, slug |-> <<"Z", "9">>]

(***************************************************************************)
(* C10.  A restart after a crash in the middle of writeStorage loads every *)
(* mapping that the storage file held when that writeStorage began.        *)
(***************************************************************************)
C10_CrashMidPersistKeepsFile ==
  [][ (boots' # boots /\ \E p \in Procs : pc[p] \in Persisting) =>
        \A s \in DOMAIN readStorage(oldFile).fwd :
          /\ s \in DOMAIN storage'
          /\ storage'[s] = readStorage(oldFile).fwd[s] ]_vars

(***************************************************************************)
(* C11.  After a store is persisted and the file loaded into empty maps,   *)
(* the forward map holds exactly the (slug, url) pairs the store held, the *)
(* urls taken with their "\n" characters removed.                          *)
(***************************************************************************)
C11_RoundTrip ==
  boots > 0 =>
    { << s, storage[s] >> : s \in DOMAIN storage }
      = { << pr[2], StripNewlines(pr[1]) >> : pr \in issued }

(***************************************************************************)
(* C12.  Once genUniqueSlug has run out of attempts the process is dead:   *)
(* it takes no further step (it serves no request).                        *)
(***************************************************************************)
C12_ExhaustionEndsProcess ==
  [][ ~(resp.kind = "submit" /\ resp.code = Aborted) ]_vars

(***************************************************************************)
(* C13.  When writeStorage cannot create its temporary file, the storage   *)
(* file stays as it was and the new entry is in the forward map, where it  *)
(* resolves; and the Submit that created an entry is answered 200 with its *)
(* slug whatever writeStorage did.                                         *)
(***************************************************************************)
C13_PersistFailureInvisible ==
  [][ \A p \in Procs :
        /\ (pc[p] = "persist" /\ pc'[p] = "respond") =>
             /\ file' = file
             /\ Lookup(storage', req[p].slug).code = StatusMovedPermanently
             /\ Lookup(storage', req[p].slug).url = req[p].url
        /\ (pc[p] \in { "persist", "respond" } /\ pc'[p] = "idle") =>
             /\ Answered200'
             /\ resp'.slug = req[p].slug /\ resp'.url = req[p].url
             /\ file' = file
             /\ Lookup(storage', req[p].slug).url = req[p].url ]_vars

\* a Submit has just been answered 200 with a slug that the forward map
\* holds and the storage file lacks
C13_Witness ==
  /\ Answered200
  /\ resp.slug \in DOMAIN storage
  /\ storage[resp.slug] = resp.url
  /\ resp.slug \notin DOMAIN readStorage(file).fwd

(***************************************************************************)
(* Lines of a file: the stretches between newline characters, a last       *)
(* unterminated stretch included when it is not empty, each without the    *)
(* carriage return of a "\r\n" line end.  A line is named by the position  *)
(* where it starts.                                                        *)
(***************************************************************************)
LineStarts(data) ==
  { b \in 1..Len(data) : b = 1 \/ data[b - 1] = "\n" }

LineText(data, b) ==
  LET nl == { i \in b..Len(data) : data[i] = "\n" }
      e == IF nl = {} THEN Len(data)
           ELSE (CHOOSE i \in nl : \A k \in nl : i <= k) - 1
      e2 == IF e >= b /\ data[e] = "\r" THEN e - 1 ELSE e
  IN  SubSeq(data, b, e2)

HasSpace(text) == \E i \in DOMAIN text : text[i] = " "
FirstSpace(text) ==
  CHOOSE i \in DOMAIN text : text[i] = " " /\ \A k \in 1..(i - 1) : text[k] # " "
SlugOf(text) == SubSeq(text, 1, FirstSpace(text) - 1)
UrlOf(text) == SubSeq(text, FirstSpace(text) + 1, Len(text))

\* the lines of the file that hold a space
SpacedLines(data) ==
  { b \in LineStarts(data) : HasSpace(LineText(data, b)) }

C15_SubmitsSerialised ==
  /\ \A p, q \in Procs : (pc[p] \in WriteLocked /\ pc[q] \in WriteLocked) => p = q
  /\ \A p \in Procs :
       pc[p] \in WriteLocked => storageMutex = [writer |-> p, readers |-> {}]
  /\ \A p \in Procs :
       /\ pc[p] = "insert" => req[p].slug \notin DOMAIN storage
       /\ pc[p] \in Persisting \cup { "respond" } =>
            /\ req[p].slug \in DOMAIN storage
            /\ storage[req[p].slug] = req[p].url
  /\ \A pr1, pr2 \in issued :
       /\ pr1[1] # pr2[1] => pr1[2] # pr2[2]
       /\ pr1[2] \in DOMAIN storage /\ storage[pr1[2]] = pr1[1]

\* two Submits of different fresh urls that name the same slug are in
\* flight: one has inserted its entry, the other waits for the lock
C15_Witness ==
  \E p, q \in Procs :
    /\ pc[p] = "respond"
    /\ pc[q] = "lock"
    /\ req[p].url # req[q].url
    /\ req[q].url \notin DOMAIN storageReverse
    /\ ~req[p].gen
    /\ req[q].slug = req[p].slug
    /\ storage[req[p].slug] = req[p].url

(***************************************************************************)
(* C16.  A Resolve reads the forward map only while it holds the shared    *)
(* lock, and while it holds it no Submit is between acquiring and          *)
(* releasing the exclusive lock; so the entry a Resolve answers with is    *)
(* never one whose writeStorage call is still running or yet to start.     *)
(***************************************************************************)
C16_ResolveReadsUnderSharedLock ==
  [][ \A p \in Procs :
        /\ pc[p] = "rlocked" =>
             /\ p \in storageMutex.readers
             /\ \A q \in Procs : pc[q] \notin WriteLocked
        /\ (req[p].kind = "resolve" /\ resp'.kind = "resolve" /\ pc'[p] = "idle") =>
             /\ pc[p] = "rlocked"
             /\ p \in storageMutex.readers
             /\ resp' = Lookup(storage, req[p].slug)
             /\ \A q \in Procs :
                  pc[q] \in Persisting \cup { "insert" } => req[q].slug # resp'.slug ]_vars

\* a Resolve holds the shared lock while a Submit that asked for the
\* exclusive lock waits for it to leave
C16_Witness ==
  \E p, q \in Procs :
    /\ pc[p] = "rlocked"
    /\ p \in storageMutex.readers
    /\ pc[q] = "lockwait"
    /\ storageMutex.writer = q

\* the line of the file that starts at b, as written: up to the next newline
RawLine(data, b) ==
  LET nl == { i \in b..Len(data) : data[i] = "\n" }
  IN  SubSeq(data, b, IF nl = {} THEN Len(data)
                      ELSE (CHOOSE i \in nl : \A k \in nl : i <= k) - 1)

\* the file f holds exactly one newline-terminated record "slug url" for each
\* entry of the forward map st, its url without newlines, and nothing else;
\* loading f gives an entry for each slug of st
FileHoldsStore(f, st) ==
  /\ f.exists
  /\ f.data # EmptyStr => f.data[Len(f.data)] = "\n"
  /\ { RawLine(f.data, b) : b \in LineStarts(f.data) }
       = { s \o <<" ">> \o StripNewlines(st[s]) : s \in DOMAIN st }
  /\ Cardinality(LineStarts(f.data)) = Cardinality(DOMAIN st)
  /\ DOMAIN readStorage(f).fwd = DOMAIN st

C18_ReverseHitReturnsExisting ==
  [][ \A p \in Procs :
        (pc[p] = "locked" /\ pc'[p] # "locked"
           /\ req[p].url \in DOMAIN storageReverse) =>
          /\ Answered200'
          /\ resp'.url = req[p].url
          /\ resp'.slug = storageReverse[req[p].url]
          /\ pc'[p] = "idle"
          /\ storage' = storage
          /\ storageReverse' = storageReverse
          /\ file' = file
          /\ tmp' = tmp ]_vars

\* a Submit that named a free, well-formed slug for a url with a reverse
\* entry has just been answered with the entry's slug instead
C18_Witness ==
  /\ Answered200
  /\ resp.url \in DOMAIN storageReverse
  /\ resp.slug = storageReverse[resp.url]
  /\ resp.asked # resp.slug
  /\ Acceptable(resp.asked, storage)
  /\ storage = readStorage(file).fwd

(***************************************************************************)
(* C19.  A goroutine whose request has ended, whichever way it ended,      *)
(* holds neither the exclusive nor the shared lock: whoever acquires the   *)
(* lock releases it.  And under fair scheduling every request comes to its *)
(* end: no Submit or Resolve waits for the lock forever.                   *)
(***************************************************************************)
C19_LockAlwaysReleased ==
  /\ [][ \A p \in Procs :
           pc'[p] = "idle" => (storageMutex'.writer # p /\ p \notin storageMutex'.readers) ]_vars
  /\ \A p \in Procs : (pc[p] # "idle") ~> (pc[p] = "idle")

\* a Submit has just ended in the panic of genUniqueSlug and the lock is
\* free again, while another request waits for the lock
C19_Witness ==
  /\ resp.kind = "submit"
  /\ resp.code = Aborted
  /\ storageMutex = Unlocked
  /\ \E q \in Procs : pc[q] \in { "lock", "rlock" }

(***************************************************************************)
(* C20.  A Submit that ends in the panic of genUniqueSlug has changed      *)
(* nothing: the panic comes at the slug choice, before the insertion and   *)
(* before writeStorage, and neither that step nor any earlier step of the  *)
(* request (reading the form, taking the lock) changes the forward map,    *)
(* the reverse map or the storage file.                                    *)
(***************************************************************************)
C20_ExhaustionChangesNothing ==
  [][ /\ (resp'.kind = "submit" /\ resp'.code = Aborted) =>
           \E p \in Procs :
             /\ pc[p] = "locked" /\ pc'[p] = "idle"
             /\ req[p].url \notin DOMAIN storageReverse
             /\ tmp = EmptyStr /\ tmp' = EmptyStr
             /\ storage' = storage
             /\ storageReverse' = storageReverse
             /\ file' = file
      /\ \A p \in Procs :
           (pc[p] \in { "idle", "lock", "lockwait" } /\ pc'[p] # pc[p]) =>
             /\ storage' = storage
             /\ storageReverse' = storageReverse
             /\ file' = file ]_vars

\* a Submit that named no usable slug has just ended in the panic, with
\* the forward map holding an entry of the configured slug length
C20_Witness ==
  /\ resp.kind = "submit"
  /\ resp.code = Aborted
  /\ ~Acceptable(resp.asked, storage)
  /\ \E s \in DOMAIN storage : Len(s) = SpaceConfig
  /\ \A p \in Procs : pc[p] = "idle"

====
